---- MODULE Spec2Model ----
(***************************************************************************)
(* State-machine model of the Ubuntu Insights Kubernetes operator          *)
(* (src/src/charm.py, src/src/database.py).                                *)
(*                                                                         *)
(* Strings are sequences of one-character strings, so that str.split and   *)
(* str.strip are computed as Python computes them.  A Python dict is a     *)
(* function on its present keys; dict.get(k) is None when k is outside     *)
(* the domain.                                                             *)
(***************************************************************************)
EXTENDS Integers, Sequences, FiniteSets, TLC

VARIABLES
    relation,    \* the Juju "database" relation as the unit sees it
    dbdata,      \* ReaderSpec only: the DBData values get_relation_data returned
    config,      \* the charm configuration (self.config)
    meta,        \* container metadata: where, if anywhere, reports-cache is mounted
    canConnect,  \* whether the supervisor (Pebble) was reachable in the last event
    files,       \* workload filesystem: the two live-config files
    plan,        \* the supervisor's stored plan: {} or {layer}
    started,     \* per service, {} or {the plan entry it is running with}
    ports,       \* the unit's opened ports
    version,     \* the recorded workload version: {} while never set
    unitStatus,  \* the unit status reported at the end of the last event
    lockWanted,  \* the rolling-restart lock has been requested and not yet served
    event,       \* the kind of the last event handled
    apps,        \* the charm object's web_apps / ingest_apps after the last event
    steps,       \* the external calls made while handling it, in order
    nEvents,     \* how many events the unit has handled
    fleet        \* FleetSpec only: per unit of the application, its lock and workload

charmVars == <<config, meta, canConnect, files, plan, started, ports, version,
               apps, unitStatus, lockWanted, event, steps, nEvents>>

vars == <<relation, dbdata, charmVars, fleet>>

(***************************************************************************)
(* Bounds of the model.                                                    *)
(***************************************************************************)
\* longest "endpoints" value drawn in ReaderSpec
MaxLen == 5
\* longest sequence of events explored from a fresh unit in Spec
MaxEvents == 3

(***************************************************************************)
(* Python string helpers.                                                  *)
(***************************************************************************)
Char == {"h", "5", ":", ","}

RECURSIVE StrsUpTo(_)
StrsUpTo(n) ==
    IF n = 0 THEN {<<>>}
    ELSE LET shorter == StrsUpTo(n - 1)
         IN  shorter \cup {Append(s, c) : s \in {t \in shorter : Len(t) = n - 1}, c \in Char}

\* str.split(sep) for a one-character separator: "" splits to [""], and a
\* trailing separator yields a trailing "".
RECURSIVE Split(_, _)
Split(s, sep) ==
    IF \A i \in 1..Len(s) : s[i] # sep
    THEN <<s>>
    ELSE LET i == CHOOSE k \in 1..Len(s) :
                      s[k] = sep /\ \A j \in 1..(k - 1) : s[j] # sep
         IN  <<SubSeq(s, 1, i - 1)>> \o Split(SubSeq(s, i + 1, Len(s)), sep)

(***************************************************************************)
(* database.py                                                             *)
(***************************************************************************)
\* DBData(): every field defaults to "".
DBData == [host |-> <<>>, port |-> <<>>, user |-> <<>>, password |-> <<>>, db_name |-> <<>>]

\* relation_data.get(key, default)
DictGet(d, key, default) == IF key \in DOMAIN d THEN d[key] ELSE default

\* "None in (relation_data.get("username"), .get("password"), .get("database"))"
MissingCredentials(bag) ==
    \E k \in {"username", "password", "database"} : k \notin DOMAIN bag

\* A relation state: whether model.get_relation finds the relation, whether
\* DatabaseRequires.relations lists it, whether fetch_relation_data()[id]
\* raises, and the bag it returns otherwise.
NoRelation == [exists |-> FALSE, listed |-> FALSE, fetch |-> "ok", bag |-> <<>>]
Related(bag) == [exists |-> TRUE, listed |-> TRUE, fetch |-> "ok", bag |-> bag]

GetRelationData_TakeLastEndpoint(rel) ==
    IF ~rel.exists \/ ~rel.listed THEN DBData
    ELSE IF rel.fetch = "raises" THEN DBData
    ELSE LET endpoints == Split(DictGet(rel.bag, "endpoints", <<>>), ",")
             primary_endpoint == Split(endpoints[Len(endpoints)], ":")
         IN  IF Len(primary_endpoint) < 2 THEN DBData
             ELSE IF MissingCredentials(rel.bag) THEN DBData
             ELSE [host     |-> primary_endpoint[1],
                   port     |-> primary_endpoint[2],
                   user     |-> rel.bag["username"],
                   password |-> rel.bag["password"],
                   db_name  |-> rel.bag["database"]]

GetRelationData_SkipCredentialCheck(rel) ==
    IF ~rel.exists \/ ~rel.listed THEN DBData
    ELSE IF rel.fetch = "raises" THEN DBData
    ELSE LET endpoints == Split(DictGet(rel.bag, "endpoints", <<>>), ",")
             primary_endpoint == Split(endpoints[1], ":")
         IN  IF Len(primary_endpoint) < 2 THEN DBData
             ELSE [host     |-> primary_endpoint[1],
                   port     |-> primary_endpoint[2],
                   user     |-> DictGet(rel.bag, "username", <<>>),
                   password |-> DictGet(rel.bag, "password", <<>>),
                   db_name  |-> DictGet(rel.bag, "database", <<>>)]

\* DatabaseHandler.get_relation_data
GetRelationData(rel) ==
    IF ~rel.exists \/ ~rel.listed THEN DBData
    ELSE IF rel.fetch = "raises" THEN DBData
    ELSE LET endpoints == Split(DictGet(rel.bag, "endpoints", <<>>), ",")
             primary_endpoint == Split(endpoints[1], ":")
         IN  IF Len(primary_endpoint) < 2 THEN DBData
             ELSE IF MissingCredentials(rel.bag) THEN DBData
             ELSE [host     |-> primary_endpoint[1],
                   port     |-> primary_endpoint[2],
                   user     |-> rel.bag["username"],
                   password |-> rel.bag["password"],
                   db_name  |-> rel.bag["database"]]

\* DatabaseHandler.is_relation_ready
IsRelationReady(rel) == GetRelationData(rel).host # <<>>

BagKeys == {"endpoints", "username", "password", "database"}

\* An optional value: {} when the key is absent, {v} when it holds v.
Optional(S) == {{}} \cup {{v} : v \in S}

\* The dict holding exactly the keys whose optional value is present.
MkBag(e, u, p, d) ==
    LET opt == [k \in BagKeys |->
                   IF k = "endpoints" THEN e
                   ELSE IF k = "username" THEN u
                   ELSE IF k = "password" THEN p
                   ELSE d]
    IN  [k \in {x \in BagKeys : opt[x] # {}} |-> CHOOSE v \in opt[k] : TRUE]

(***************************************************************************)
(* charm.py: constants                                                     *)
(***************************************************************************)
WEB == "web-service"
INGEST == "ingest-service"
ServiceTypes == {WEB, INGEST}

WEB_DYNAMIC_PATH == "/etc/ubuntu-insights-service/web-live-config.json"
INGEST_DYNAMIC_PATH == "/etc/ubuntu-insights-service/ingest-live-config.json"
WEB_PROMETHEUS_PORT == 2112
INGEST_PROMETHEUS_PORT == 2113
MIGRATIONS_PATH == "/usr/share/insights/migrations"

LEGACY_VERSIONS ==
    {"18.04", "18.10", "20.04", "20.10", "21.04", "21.10", "22.04",
     "22.10", "23.04", "23.10", "24.04", "24.10", "25.04", "25.10"}

\* Two of the orders in which iterating the set LEGACY_VERSIONS may yield its
\* elements (the order of a Python set of strings varies between processes).
LegacyAscending ==
    <<"18.04", "18.10", "20.04", "20.10", "21.04", "21.10", "22.04",
      "22.10", "23.04", "23.10", "24.04", "24.10", "25.04", "25.10">>
LegacyOrders ==
    {LegacyAscending,
     [i \in 1..Len(LegacyAscending) |-> LegacyAscending[Len(LegacyAscending) + 1 - i]]}

(***************************************************************************)
(* The environment of an event: configuration, container metadata.         *)
(***************************************************************************)
\* "linux" and "linux, windows" with one-letter application names.
AppsOne == <<"a">>
AppsTwo == <<"a", ",", " ", "b">>

\* The configuration of test_pebble_layer: port 8080, debug off; web-legacy
\* is on by default (test_config_changed finds the legacy entries in the web
\* file without setting it).
DefaultConfig ==
    [web_port |-> 8080, web_apps |-> AppsTwo, ingest_apps |-> AppsTwo,
     web_legacy |-> TRUE, ingest_legacy |-> FALSE, migrate |-> TRUE, debug |-> FALSE]

AllConfigs ==
    [web_port : {8080, 8081}, web_apps : {AppsOne, AppsTwo}, ingest_apps : {AppsOne, AppsTwo},
     web_legacy : BOOLEAN, ingest_legacy : BOOLEAN, migrate : BOOLEAN, debug : BOOLEAN]

\* The configurations the operator sets in Spec: the default one, another
\* port, migrations off, and other applications with the legacy flags
\* exchanged and debug on.
Configs ==
    {DefaultConfig,
     [DefaultConfig EXCEPT !.web_port = 8081],
     [DefaultConfig EXCEPT !.migrate = FALSE],
     [DefaultConfig EXCEPT !.web_apps = AppsOne, !.web_legacy = FALSE,
                           !.ingest_legacy = TRUE, !.debug = TRUE]}

REPORTS_CACHE_MOUNT_LOCATION == "/var/lib/ubuntu-insights/"

\* framework.meta.containers: the container entry may be missing, its mounts
\* may lack reports-cache, and the mount's location may be empty.
AllMetas ==
    {[container |-> FALSE, mount |-> FALSE, location |-> ""],
     [container |-> TRUE,  mount |-> FALSE, location |-> ""],
     [container |-> TRUE,  mount |-> TRUE,  location |-> ""],
     [container |-> TRUE,  mount |-> TRUE,  location |-> REPORTS_CACHE_MOUNT_LOCATION]}

\* The metadata of Spec: reports-cache mounted, or not declared.
Metas == {m \in AllMetas : m.container /\ (m.mount <=> m.location # "")}

\* The relation bags of Spec: empty, or the three credentials with
\* endpoints absent or one of two endpoints.
HostH == <<"h", ":", "5">>
Host5 == <<"5", ":", "h">>
MainBags ==
    {<<>>} \cup { MkBag(e, {<<"h">>}, {<<"5">>}, {<<"h">>}) : e \in Optional({HostH, Host5}) }

\* The outcomes of the external calls of one event, besides the supervisor
\* being unreachable: each name is a call that fails.
\*   push_web, push_ingest, exists, add_layer, replan_api, stop_api:
\*       the call raises pebble.APIError
\*   exec_nonzero: the migration exits non-zero (pebble.ExecError)
\*   exec_change:  exec raises another error (ChangeError, TimeoutError)
\*   replan_change, stop_change: the change fails (pebble.ChangeError)
\*   version: the /version probe fails
PlanFaults == {"exists", "add_layer", "replan_api", "replan_change", "version"}
ExecFaults == {"exec_nonzero", "exec_change"}
PushFaults == {"push_web", "push_ingest"}
StopFaults == {"stop_api", "stop_change"}

\* One of the calls in calls fails in an event, or none; when the supervisor
\* is unreachable every call to it fails anyway.
FaultSets(cc, calls) == IF cc THEN {{}} \cup {{f} : f \in calls} ELSE {{}}

\* The orders a handler that renders with this configuration can see.
Orders(cfg) ==
    IF cfg.web_legacy \/ cfg.ingest_legacy THEN LegacyOrders ELSE {LegacyAscending}

\* The version the workload answers on /version.
WorkloadVersion == "1.0"

(***************************************************************************)
(* Python helpers used by charm.py                                         *)
(***************************************************************************)
\* str.strip(): drop leading and trailing blanks
Strip(s) ==
    LET keep == {i \in 1..Len(s) : s[i] # " "}
    IN  IF keep = {} THEN <<>>
        ELSE SubSeq(s, CHOOSE i \in keep : \A j \in keep : i <= j,
                       CHOOSE i \in keep : \A j \in keep : j <= i)

\* [item.strip() for item in str(option).split(",")]
ParseApps(option) ==
    LET parts == Split(option, ",")
    IN  [i \in 1..Len(parts) |-> Strip(parts[i])]

\* f"ubuntu-report/ubuntu/desktop/{version}" for version in LEGACY_VERSIONS
LegacyEntries(order) ==
    [i \in 1..Len(order) |-> <<"ubuntu-report/ubuntu/desktop/", order[i]>>]

(***************************************************************************)
(* A handler works on a record w of what it can change:                    *)
(*   files, plan, started, ports, version  as the variables of these names *)
(*   apps     the in-memory web_apps / ingest_apps of the charm object     *)
(*   steps    the external calls made so far                               *)
(*   raised   an exception left the handler                                *)
(* and reads a record env: cfg, rel, meta, cc (supervisor reachable),      *)
(* faults, order (iteration order of LEGACY_VERSIONS in this process).     *)
(***************************************************************************)
Call(w, name) == [w EXCEPT !.steps = Append(@, name)]

\* UbuntuInsightsCharm.report_cache_path
ReportCachePath(m) ==
    IF ~m.container THEN ""
    ELSE IF ~m.mount THEN ""
    ELSE m.location

\* the two paths exchanged
DynamicPath_Exchanged(service) ==
    IF service = WEB THEN INGEST_DYNAMIC_PATH ELSE WEB_DYNAMIC_PATH

\* _render_dynamic_config: config_path
DynamicPath(service) == IF service = WEB THEN WEB_DYNAMIC_PATH ELSE INGEST_DYNAMIC_PATH

\* an environment built without asking whether the relation is ready
IngestEnvironment_Unchecked(rel) ==
    LET db_data == GetRelationData(rel)
        key_prefix == "UBUNTU_INSIGHTS_INGEST_SERVICE_"
    IN  (key_prefix \o "DBCONFIG_HOST" :> db_data.host)
        @@ (key_prefix \o "DBCONFIG_PORT" :> db_data.port)
        @@ (key_prefix \o "DBCONFIG_USER" :> db_data.user)
        @@ (key_prefix \o "DBCONFIG_PASSWORD" :> db_data.password)
        @@ (key_prefix \o "DBCONFIG_DBNAME" :> db_data.db_name)

\* UbuntuInsightsCharm.ingest_environment
IngestEnvironment(rel) ==
    IF ~IsRelationReady(rel) THEN <<>>
    ELSE LET db_data == GetRelationData(rel)
             key_prefix == "UBUNTU_INSIGHTS_INGEST_SERVICE_"
         IN  (key_prefix \o "DBCONFIG_HOST" :> db_data.host)
             @@ (key_prefix \o "DBCONFIG_PORT" :> db_data.port)
             @@ (key_prefix \o "DBCONFIG_USER" :> db_data.user)
             @@ (key_prefix \o "DBCONFIG_PASSWORD" :> db_data.password)
             @@ (key_prefix \o "DBCONFIG_DBNAME" :> db_data.db_name)

\* a renderer that extends the charm's own list instead of a copy
RenderDynamicConfig_ExtendInPlace(w, env, service) ==
    IF w.raised THEN w
    ELSE LET legacy == IF service = WEB THEN env.cfg.web_legacy ELSE env.cfg.ingest_legacy
             allowlist == IF legacy
                          THEN w.apps[service] \o LegacyEntries(env.order)
                          ELSE w.apps[service]
             config_data == [allowList |-> allowlist]
             fault == IF service = WEB THEN "push_web" ELSE "push_ingest"
             pushed == [Call(w, fault) EXCEPT !.apps[service] = allowlist]
         IN  IF ~env.cc \/ fault \in env.faults
             THEN pushed
             ELSE [pushed EXCEPT !.files[DynamicPath(service)] = {config_data}]

\* UbuntuInsightsCharm._render_dynamic_config
\* a renderer that lets the failure of push leave the handler
RenderDynamicConfig_Uncaught(w, env, service) ==
    IF w.raised THEN w
    ELSE LET legacy == IF service = WEB THEN env.cfg.web_legacy ELSE env.cfg.ingest_legacy
             allowlist == IF legacy
                          THEN w.apps[service] \o LegacyEntries(env.order)
                          ELSE w.apps[service]
             config_data == [allowList |-> allowlist]
             fault == IF service = WEB THEN "push_web" ELSE "push_ingest"
             pushed == Call(w, fault)
         IN  IF ~env.cc \/ fault \in env.faults
             THEN [pushed EXCEPT !.raised = TRUE]
             ELSE [pushed EXCEPT !.files[DynamicPath(service)] = {config_data}]

RenderDynamicConfig(w, env, service) ==
    IF w.raised THEN w
    ELSE LET legacy == IF service = WEB THEN env.cfg.web_legacy ELSE env.cfg.ingest_legacy
             allowlist == IF legacy
                          THEN w.apps[service] \o LegacyEntries(env.order)
                          ELSE w.apps[service]
             config_data == [allowList |-> allowlist]
             fault == IF service = WEB THEN "push_web" ELSE "push_ingest"
             pushed == Call(w, fault)
         IN  IF ~env.cc \/ fault \in env.faults
             THEN pushed
             ELSE [pushed EXCEPT !.files[DynamicPath(service)] = {config_data}]

\* a migration runner that checks the supervisor only
ExecuteMigrations_ReachableOnly(w, env) ==
    IF w.raised THEN w
    ELSE IF ~env.cc THEN w
    ELSE LET run == Call(w, "exec")
         IN  IF "exec_change" \in env.faults THEN [run EXCEPT !.raised = TRUE]
             ELSE run

\* UbuntuInsightsCharm._execute_migrations
ExecuteMigrations(w, env) ==
    IF w.raised THEN w
    ELSE IF ~IsRelationReady(env.rel) \/ ~env.cc THEN w
    ELSE LET run == Call(w, "exec")
         IN  IF "exec_change" \in env.faults THEN [run EXCEPT !.raised = TRUE]
             ELSE run

\* UbuntuInsightsCharm._is_config_rendered: "raises" when exists() does
IsConfigRendered(w, env, service) ==
    IF ~env.cc THEN "false"
    ELSE IF "exists" \in env.faults THEN "raises"
    ELSE IF w.files[DynamicPath(service)] # {} THEN "true" ELSE "false"

\* the two command lines of _pebble_layer, as the lists that are joined
DebugFlag(cfg) == IF cfg.debug THEN "-vv" ELSE "-v"

\* a web command that always listens on the default port
WebCommand_DefaultPort(cfg, m) ==
    <<"/bin/ubuntu-insights-web-service",
      WEB_DYNAMIC_PATH,
      "--listen-port=8080",
      "--reports-dir=" \o ReportCachePath(m),
      "--metrics-port=" \o ToString(WEB_PROMETHEUS_PORT),
      "--json-logs",
      DebugFlag(cfg)>>

WebCommand(cfg, m) ==
    <<"/bin/ubuntu-insights-web-service",
      WEB_DYNAMIC_PATH,
      "--listen-port=" \o ToString(cfg.web_port),
      "--reports-dir=" \o ReportCachePath(m),
      "--metrics-port=" \o ToString(WEB_PROMETHEUS_PORT),
      "--json-logs",
      DebugFlag(cfg)>>

IngestCommand(cfg, m) ==
    <<"/bin/ubuntu-insights-ingest-service",
      INGEST_DYNAMIC_PATH,
      "--reports-dir=" \o ReportCachePath(m),
      "--metrics-port=" \o ToString(INGEST_PROMETHEUS_PORT),
      "--json-logs",
      DebugFlag(cfg)>>

\* UbuntuInsightsCharm._pebble_layer raises when a call it makes does
PebbleLayerRaises(w, env) ==
    "raises" \in {IsConfigRendered(w, env, WEB), IsConfigRendered(w, env, INGEST)}

\* the startup values as first computed from the rendered config files, were
\* they not overwritten afterwards
ServiceStartup_NotOverwritten(w, env, service) ==
    LET path == ReportCachePath(env.meta)
    IN  IF service = WEB
        THEN (IF IsConfigRendered(w, env, WEB) # "true" \/ path = ""
              THEN "disabled" ELSE "enabled")
        ELSE (IF IsConfigRendered(w, env, INGEST) # "true" \/ path = ""
                 \/ ~IsRelationReady(env.rel)
              THEN "disabled" ELSE "enabled")

\* _pebble_layer, the startup of a service: the values computed from the
\* rendered config files are overwritten by the ones computed from the
\* storage path and the readiness of the relation
ServiceStartup(w, env, service) ==
    LET path == ReportCachePath(env.meta)
        first == ServiceStartup_NotOverwritten(w, env, service)
    IN  IF service = WEB
        THEN (IF path # "" THEN "enabled" ELSE "disabled")
        ELSE (IF path # "" /\ IsRelationReady(env.rel) THEN "enabled" ELSE "disabled")

\* UbuntuInsightsCharm._pebble_layer: the layer it returns
PebbleLayer(w, env) ==
        [services |->
            (WEB :> [command |-> WebCommand(env.cfg, env.meta),
                     startup |-> ServiceStartup(w, env, WEB)])
            @@ (INGEST :> [command |-> IngestCommand(env.cfg, env.meta),
                           startup |-> ServiceStartup(w, env, INGEST),
                           environment |-> IngestEnvironment(env.rel)]),
         checks |->
            [name |-> "web-service-ready", level |-> "ready",
             url |-> "http://localhost:" \o ToString(env.cfg.web_port) \o "/version"]]

\* The services a replan (re)starts: Pebble restarts every running service
\* whose plan entry differs from the one it runs with, and starts every
\* service whose startup is enabled.
ToStart(st, layer) ==
    {s \in ServiceTypes :
        \/ (st[s] # {} /\ st[s] # {layer.services[s]})
        \/ (st[s] = {} /\ layer.services[s].startup = "enabled")}

\* container.pebble.replan_services(), all services starting
ReplanServices(st, layer) ==
    [s \in ServiceTypes |-> IF s \in ToStart(st, layer) THEN {layer.services[s]} ELSE st[s]]

\* ... and with a service that fails to start (the change fails; there is
\* no change to fail when nothing is to be started)
ReplanFailing(st, layer) ==
    [s \in ServiceTypes |-> IF s \in ToStart(st, layer) THEN {} ELSE st[s]]

\* UbuntuInsightsCharm.version
Version(w, env) ==
    IF ~env.cc \/ w.plan = {} THEN ""
    ELSE IF "version" \in env.faults \/ w.started[WEB] = {} THEN ""
    ELSE WorkloadVersion

\* UbuntuInsightsCharm._update_layer_and_replan
UpdateLayerAndReplan(w, env) ==
    IF w.raised THEN w
    ELSE LET layer == PebbleLayer(w, env)
             added == [Call(w, "add_layer") EXCEPT !.plan = {layer}]
             replanned == [Call(added, "replan_services") EXCEPT
                              !.started = ReplanServices(@, layer)]
         IN  IF PebbleLayerRaises(w, env) THEN w
             ELSE IF ~env.cc \/ "add_layer" \in env.faults THEN Call(w, "add_layer")
             ELSE IF "replan_api" \in env.faults THEN Call(added, "replan_services")
             ELSE IF "replan_change" \in env.faults /\ ToStart(w.started, layer) # {}
                  THEN [Call(added, "replan_services") EXCEPT
                           !.started = ReplanFailing(@, layer), !.raised = TRUE]
             ELSE [Call(replanned, "set_workload_version") EXCEPT
                      !.version = {Version(replanned, env)}]

\* UbuntuInsightsCharm._stop_service
StopService(w, env, service) ==
    IF w.raised THEN w
    ELSE IF env.cc /\ w.plan # {} /\ w.started[service] # {}
    THEN LET stop == Call(w, IF service = WEB THEN "stop_web" ELSE "stop_ingest")
         IN  IF "stop_api" \in env.faults THEN stop
             ELSE IF "stop_change" \in env.faults THEN [stop EXCEPT !.raised = TRUE]
             ELSE [stop EXCEPT !.started[service] = {}]
    ELSE w

\* unit.set_ports(port): exactly this port stays open
SetPorts(w, env) ==
    IF w.raised THEN w
    ELSE [Call(w, "set_ports") EXCEPT !.ports = {env.cfg.web_port}]

\* a routine that submits the layer before it renders and migrates
OnConfigChanged_ReplanFirst(w, env) ==
    LET parsed == [w EXCEPT !.apps = (WEB :> ParseApps(env.cfg.web_apps))
                                     @@ (INGEST :> ParseApps(env.cfg.ingest_apps))]
        replanned == UpdateLayerAndReplan(parsed, env)
        rendered == RenderDynamicConfig(RenderDynamicConfig(replanned, env, WEB), env, INGEST)
        migrated == IF env.cfg.migrate THEN ExecuteMigrations(rendered, env) ELSE rendered
    IN  SetPorts(migrated, env)

\* UbuntuInsightsCharm._on_config_changed (also _on_pebble_ready, _on_restart).
\* _require_nginx_route only publishes the route to the ingress relation.
OnConfigChanged(w, env) ==
    LET parsed == [w EXCEPT !.apps = (WEB :> ParseApps(env.cfg.web_apps))
                                     @@ (INGEST :> ParseApps(env.cfg.ingest_apps))]
        rendered == RenderDynamicConfig(RenderDynamicConfig(parsed, env, WEB), env, INGEST)
        migrated == IF env.cfg.migrate THEN ExecuteMigrations(rendered, env) ELSE rendered
    IN  UpdateLayerAndReplan(SetPorts(migrated, env), env)

\* a database-created handler that runs the whole reconcile routine
OnDatabaseCreated_Reconciles(w, env) == OnConfigChanged(w, env)

\* UbuntuInsightsCharm._on_database_created
\* a database-created handler that migrates and leaves the plan alone
OnDatabaseCreated_MigratesOnly(w, env) == ExecuteMigrations(w, env)

OnDatabaseCreated(w, env) == UpdateLayerAndReplan(ExecuteMigrations(w, env), env)

\* an endpoints-changed handler that migrates only when 'migrate' is set
OnDatabaseEndpointsChanged_Gated(w, env) ==
    UpdateLayerAndReplan(IF env.cfg.migrate THEN ExecuteMigrations(w, env) ELSE w, env)

\* UbuntuInsightsCharm._on_database_endpoints_changed
OnDatabaseEndpointsChanged(w, env) == UpdateLayerAndReplan(ExecuteMigrations(w, env), env)

\* a relation-broken handler that stops both services
OnDatabaseRelationBroken_StopsBoth(w, env) ==
    StopService(StopService(w, env, WEB), env, INGEST)

\* UbuntuInsightsCharm._on_database_relation_broken
OnDatabaseRelationBroken(w, env) == StopService(w, env, INGEST)

\* an upgrade handler that runs the reconcile routine itself
OnUpgradeCharm_Reconciles(w, env) == OnConfigChanged(w, env)

\* UbuntuInsightsCharm._on_upgrade_charm: acquire_lock.emit() changes nothing
\* a handler of this charm sees
OnUpgradeCharm(w, env) == w

\* UbuntuInsightsCharm._on_storage_state_changed
OnStorageStateChanged(w, env) ==
    IF ReportCachePath(env.meta) # ""
    THEN OnConfigChanged(w, env)
    ELSE StopService(StopService(w, env, WEB), env, INGEST)

(***************************************************************************)
(* Status: _on_collect_status adds statuses in this order; the framework   *)
(* reports the one of highest priority, the first added among equals.      *)
(***************************************************************************)
Status(name, message) == [name |-> name, message |-> message]

\* The framework's ranking of status names:
\* error > blocked > maintenance > waiting > active.
StatusPriority(name) ==
    CASE name = "error" -> 5
      [] name = "blocked" -> 4
      [] name = "maintenance" -> 3
      [] name = "waiting" -> 2
      [] name = "active" -> 1
      [] OTHER -> 0

HighestPriority(statuses) ==
    statuses[CHOOSE i \in 1..Len(statuses) :
                /\ \A j \in 1..Len(statuses) :
                       StatusPriority(statuses[j].name) <= StatusPriority(statuses[i].name)
                /\ \A j \in 1..(i - 1) :
                       StatusPriority(statuses[j].name) < StatusPriority(statuses[i].name)]

\* _on_collect_status, the database relation
DatabaseStatuses(rel) ==
    IF ~rel.exists THEN <<Status("blocked", "Waiting for database relation")>>
    ELSE IF ~IsRelationReady(rel)
         THEN <<Status("waiting", "Waiting for database relation")>>
    ELSE <<>>

\* _on_collect_status, the reports-cache mount of the container metadata
StorageStatuses(m) ==
    IF ~m.container THEN <<Status("blocked", "Container metadata not found")>>
    ELSE IF ~m.mount \/ m.location = ""
         THEN <<Status("blocked", "Waiting for reports cache storage mount")>>
    ELSE <<>>

\* a service check that looks at the web service only
ServiceStatuses_WebOnly(cc, pl, st) ==
    IF ~cc \/ pl = {}
    THEN <<Status("maintenance", "Waiting for Pebble in workload container")>>
    ELSE IF st[WEB] = {}
         THEN <<Status("maintenance", "Waiting for the web service to start up")>>
         ELSE <<>>

\* a service check that looks at the ingest service first
ServiceStatuses_IngestFirst(cc, pl, st) ==
    IF ~cc \/ pl = {}
    THEN <<Status("maintenance", "Waiting for Pebble in workload container")>>
    ELSE (IF st[INGEST] = {}
          THEN <<Status("maintenance", "Waiting for the ingest service to start up")>>
          ELSE <<>>)
         \o
         (IF st[WEB] = {}
          THEN <<Status("maintenance", "Waiting for the web service to start up")>>
          ELSE <<>>)

\* _on_collect_status, the two services: get_service raises when the
\* supervisor is unreachable or does not know the service
ServiceStatuses(cc, pl, st) ==
    IF ~cc \/ pl = {}
    THEN <<Status("maintenance", "Waiting for Pebble in workload container")>>
    ELSE (IF st[WEB] = {}
          THEN <<Status("maintenance", "Waiting for the web service to start up")>>
          ELSE <<>>)
         \o
         (IF st[INGEST] = {}
          THEN <<Status("maintenance", "Waiting for the ingest service to start up")>>
          ELSE <<>>)

\* a collection that looks at the storage before the relation
CollectStatus_StorageFirst(rel, m, cc, pl, st) ==
    StorageStatuses(m) \o DatabaseStatuses(rel) \o ServiceStatuses(cc, pl, st)
        \o <<Status("active", "")>>

\* UbuntuInsightsCharm._on_collect_status: the statuses added, in order
CollectStatus(rel, m, cc, pl, st) ==
    DatabaseStatuses(rel) \o StorageStatuses(m) \o ServiceStatuses(cc, pl, st)
        \o <<Status("active", "")>>

(***************************************************************************)
(* Events.  Every action is one Juju event: the change that causes it, the *)
(* handler run to completion, and the status collection that ends it.      *)
(***************************************************************************)
NoFiles == (WEB_DYNAMIC_PATH :> {}) @@ (INGEST_DYNAMIC_PATH :> {})
NotStarted == [s \in ServiceTypes |-> {}]
NoApps == [s \in ServiceTypes |-> <<>>]

\* The charm state of a freshly deployed unit, before its first event.
CharmFresh ==
    /\ config = DefaultConfig
    /\ meta \in Metas
    /\ canConnect = FALSE
    /\ files = NoFiles
    /\ plan = {}
    /\ started = NotStarted
    /\ ports = {}
    /\ version = {}
    /\ apps = NoApps
    /\ unitStatus = Status("unknown", "")
    /\ lockWanted = FALSE
    /\ event = "none"
    /\ steps = <<>>
    /\ nEvents = 0

Init ==
    /\ relation = NoRelation
    /\ dbdata = <<>>
    /\ fleet = <<>>
    /\ CharmFresh

\* What the handler starts from: a new charm object (web_apps and
\* ingest_apps are the class attribute []) over the current state.
World ==
    [files |-> files, plan |-> plan, started |-> started, ports |-> ports,
     version |-> version, apps |-> NoApps, steps |-> <<>>, raised |-> FALSE]

Env(cfg, rel, cc, faults, order) ==
    [cfg |-> cfg, rel |-> rel, meta |-> meta, cc |-> cc, faults |-> faults, order |-> order]

\* The end of an event: what the handler did is kept and the status is
\* collected; when the handler raised, the hook fails, the unit is in error
\* and the ports it set are not committed.
Commit(kind, w, rel, cc) ==
    /\ nEvents < MaxEvents
    /\ nEvents' = nEvents + 1
    /\ event' = kind
    /\ canConnect' = cc
    /\ files' = w.files
    /\ plan' = w.plan
    /\ started' = w.started
    /\ version' = w.version
    /\ apps' = w.apps
    /\ steps' = w.steps
    /\ ports' = IF w.raised THEN ports ELSE w.ports
    /\ unitStatus' = IF w.raised THEN Status("error", "hook failed")
                     ELSE HighestPriority(CollectStatus(rel, meta, cc, w.plan, w.started))
    /\ UNCHANGED <<meta, dbdata, fleet>>

\* An event handled by _on_config_changed
Reconcile(kind, cfg, cc) ==
    \E faults \in FaultSets(cc, PushFaults \cup ExecFaults \cup PlanFaults),
       order \in Orders(cfg) :
        Commit(kind, OnConfigChanged(World, Env(cfg, relation, cc, faults, order)),
               relation, cc)

Start ==
    /\ \E cc \in BOOLEAN : Reconcile("start", config, cc)
    /\ UNCHANGED <<relation, config, lockWanted>>

PebbleReady ==
    /\ Reconcile("pebble_ready", config, TRUE)
    /\ UNCHANGED <<relation, config, lockWanted>>

ConfigChanged ==
    /\ \E cfg \in Configs, cc \in BOOLEAN :
           /\ config' = cfg
           /\ Reconcile("config_changed", cfg, cc)
    /\ UNCHANGED <<relation, lockWanted>>

\* _on_upgrade_charm: emits acquire_lock, which asks for the restart lock
UpgradeCharm ==
    /\ lockWanted' = TRUE
    /\ \E cc \in BOOLEAN :
           Commit("upgrade_charm",
                  OnUpgradeCharm(World, Env(config, relation, cc, {}, LegacyAscending)),
                  relation, cc)
    /\ UNCHANGED <<relation, config>>

\* the lock is granted: RollingOpsManager runs the callback _on_restart
RestartRequested ==
    /\ lockWanted
    /\ lockWanted' = FALSE
    /\ \E cc \in BOOLEAN : Reconcile("restart", config, cc)
    /\ UNCHANGED <<relation, config>>

StorageEvent(kind) ==
    /\ \E cc \in BOOLEAN :
         \E faults \in FaultSets(cc, IF ReportCachePath(meta) # ""
                                     THEN PushFaults \cup ExecFaults \cup PlanFaults
                                     ELSE StopFaults),
            order \in Orders(config) :
           Commit(kind,
                  OnStorageStateChanged(World, Env(config, relation, cc, faults, order)),
                  relation, cc)
    /\ UNCHANGED <<relation, config, lockWanted>>

StorageAttached == StorageEvent("storage_attached")

StorageDetaching == StorageEvent("storage_detaching")

\* the relation is established; the charm observes no event of it
RelationCreated ==
    /\ ~relation.exists
    /\ relation' = Related(<<>>)
    /\ \E cc \in BOOLEAN : Commit("relation_created", World, relation', cc)
    /\ UNCHANGED <<config, lockWanted>>

\* the provider writes username and password (and possibly more):
\* DatabaseRequires emits database_created
DatabaseCreated ==
    /\ relation.exists
    /\ "username" \notin DOMAIN relation.bag
    /\ \E bag \in MainBags, cc \in BOOLEAN :
         \E faults \in FaultSets(cc, ExecFaults \cup PlanFaults), order \in {LegacyAscending} :
           /\ "username" \in DOMAIN bag
           /\ \A k \in DOMAIN relation.bag : k \in DOMAIN bag /\ bag[k] = relation.bag[k]
           /\ relation' = Related(bag)
           /\ Commit("database_created",
                     OnDatabaseCreated(World, Env(config, relation', cc, faults, order)),
                     relation', cc)
    /\ UNCHANGED <<config, lockWanted>>

\* the provider adds or changes endpoints: DatabaseRequires emits
\* endpoints_changed
DatabaseEndpointsChanged ==
    /\ relation.exists
    /\ \E bag \in MainBags, cc \in BOOLEAN :
         \E faults \in FaultSets(cc, ExecFaults \cup PlanFaults), order \in {LegacyAscending} :
           /\ "endpoints" \in DOMAIN bag
           /\ DictGet(relation.bag, "endpoints", <<>>) # bag["endpoints"]
           /\ DOMAIN bag \ {"endpoints"} = DOMAIN relation.bag \ {"endpoints"}
           /\ relation' = Related(bag)
           /\ Commit("database_endpoints_changed",
                     OnDatabaseEndpointsChanged(World, Env(config, relation', cc, faults, order)),
                     relation', cc)
    /\ UNCHANGED <<config, lockWanted>>

\* the relation is removed: the unit no longer sees it
DatabaseRelationBroken ==
    /\ relation.exists
    /\ relation' = NoRelation
    /\ \E cc \in BOOLEAN :
         \E faults \in FaultSets(cc, StopFaults), order \in {LegacyAscending} :
           Commit("database_relation_broken",
                  OnDatabaseRelationBroken(World, Env(config, relation', cc, faults, order)),
                  relation', cc)
    /\ UNCHANGED <<config, lockWanted>>

\* update-status: no handler, the status is collected
UpdateStatus ==
    /\ \E cc \in BOOLEAN : Commit("update_status", World, relation, cc)
    /\ UNCHANGED <<relation, config, lockWanted>>

Next ==
    \/ Start
    \/ PebbleReady
    \/ ConfigChanged
    \/ UpgradeCharm
    \/ RestartRequested
    \/ StorageAttached
    \/ StorageDetaching
    \/ RelationCreated
    \/ DatabaseCreated
    \/ DatabaseEndpointsChanged
    \/ DatabaseRelationBroken
    \/ UpdateStatus

Spec == Init /\ [][Next]_vars

(***************************************************************************)
(* ReaderSpec: get_relation_data applied to every relation state whose     *)
(* "endpoints" value has at most MaxLen characters.                        *)
(***************************************************************************)
ReaderBags ==
    { MkBag(e, u, p, d) :
        e \in Optional(StrsUpTo(MaxLen)),
        u \in Optional({<<>>, <<"h">>}),
        p \in Optional({<<"5">>}),
        d \in Optional({<<"h">>}) }

ReaderRelations ==
    {NoRelation}
    \cup {[exists |-> TRUE, listed |-> FALSE, fetch |-> "ok", bag |-> <<>>]}
    \cup {[exists |-> TRUE, listed |-> TRUE, fetch |-> "raises", bag |-> <<>>]}
    \cup {Related(b) : b \in ReaderBags}

ReaderInit ==
    /\ relation \in ReaderRelations
    /\ dbdata = <<>>
    /\ fleet = <<>>
    /\ CharmFresh

\* One call of get_relation_data on the current relation state.
ReaderCall ==
    /\ dbdata = <<>>
    /\ dbdata' = <<GetRelationData(relation)>>
    /\ UNCHANGED <<relation, charmVars, fleet>>

ReaderNext == ReaderCall

ReaderSpec == ReaderInit /\ [][ReaderNext]_vars

(***************************************************************************)
(* InstancesSpec: get_relation_data when DatabaseRequires.relations lists  *)
(* two related instances.                                                  *)
(***************************************************************************)
\* Several related instances, in the order of DatabaseRequires.relations:
\* relation_id is relations[0].id, and the bag read is
\* fetch_relation_data()[relation_id]; the bags of the later instances are
\* in the dict fetch_relation_data() returns and are not looked up.
RelatedSeveral(bags) ==
    [exists |-> TRUE, listed |-> TRUE, fetch |-> "ok", bag |-> bags[1], later |-> Tail(bags)]

InstanceBags ==
    { MkBag(e, u, {<<"5">>}, {<<"h">>}) :
        e \in Optional({<<>>, HostH, Host5}), u \in Optional({<<"h">>}) }

InstancesInit ==
    /\ relation \in {RelatedSeveral(<<b1, b2>>) : b1 \in InstanceBags, b2 \in InstanceBags}
    /\ dbdata = <<>>
    /\ fleet = <<>>
    /\ CharmFresh

InstancesSpec == InstancesInit /\ [][ReaderNext]_vars

(***************************************************************************)
(* PlannerSpec: _pebble_layer computed for every configuration, relation   *)
(* state, container metadata, reachability and presence of the two config  *)
(* files.                                                                  *)
(***************************************************************************)
\* a bag whose endpoint has a port and no host
HostlessBag == MkBag({<<":", "5">>}, {<<"h">>}, {<<"5">>}, {<<"h">>})

PlannerRelations ==
    {NoRelation} \cup {Related(b) : b \in MainBags \cup {HostlessBag}}

PlannerInit ==
    /\ relation \in PlannerRelations
    /\ dbdata = <<>>
    /\ fleet = <<>>
    /\ config \in AllConfigs
    /\ meta \in AllMetas
    /\ canConnect \in BOOLEAN
    /\ files \in [{WEB_DYNAMIC_PATH, INGEST_DYNAMIC_PATH} -> {{}, {[allowList |-> <<>>]}}]
    /\ plan = {}
    /\ started = NotStarted
    /\ ports = {}
    /\ version = {}
    /\ apps = NoApps
    /\ unitStatus = Status("unknown", "")
    /\ lockWanted = FALSE
    /\ event = "none"
    /\ steps = <<>>
    /\ nEvents = 0

\* One evaluation of the property _pebble_layer; plan holds the layer.
PlannerCall ==
    /\ steps = <<>>
    /\ steps' = <<"pebble_layer">>
    /\ plan' = {PebbleLayer(World, Env(config, relation, canConnect, {}, LegacyAscending))}
    /\ UNCHANGED <<fleet, relation, dbdata, config, meta, canConnect, files, started, ports,
                   version, apps, unitStatus, lockWanted, event, nEvents>>

PlannerNext == PlannerCall

PlannerSpec == PlannerInit /\ [][PlannerNext]_vars

(***************************************************************************)
(* StatusSpec: the status collected by an update-status event in every     *)
(* state of relation, metadata, reachability, plan and running services    *)
(* (a service runs only if the plan knows it).                             *)
(***************************************************************************)
StatusPlans ==
    {{}} \cup {{PebbleLayer(World, Env(DefaultConfig, Related(b), TRUE, {}, LegacyAscending))}
               : b \in MainBags}

StatusInit ==
    /\ relation \in {NoRelation} \cup {Related(b) : b \in MainBags \cup {HostlessBag}}
    /\ dbdata = <<>>
    /\ fleet = <<>>
    /\ config = DefaultConfig
    /\ meta \in AllMetas
    /\ canConnect \in BOOLEAN
    /\ files = NoFiles
    /\ plan \in StatusPlans
    /\ started \in [ServiceTypes -> {{}} \cup {{l.services[s]} : l \in plan, s \in ServiceTypes}]
    /\ \A s \in ServiceTypes : started[s] \subseteq {l.services[s] : l \in plan}
    /\ ports = {}
    /\ version = {}
    /\ apps = NoApps
    /\ unitStatus = Status("unknown", "")
    /\ lockWanted = FALSE
    /\ event = "none"
    /\ steps = <<>>
    /\ nEvents = 0

StatusNext == UpdateStatus

StatusSpec == StatusInit /\ [][StatusNext]_vars

(***************************************************************************)
(* RendererSpec: _render_dynamic_config called on one charm object, for    *)
(* every pair of in-memory allow-lists and legacy flags.                   *)
(***************************************************************************)
\* most calls of the renderer on one charm object
MaxRenders == 3

\* application names; the last one reads like a legacy entry
RendererNames == {<<"a">>, <<"b">>, <<"ubuntu-report/ubuntu/desktop/", "18.04">>}

RendererLists ==
    {<<>>} \cup {<<x>> : x \in RendererNames} \cup {<<x, y>> : x, y \in RendererNames}

RendererConfigs ==
    {[DefaultConfig EXCEPT !.web_legacy = wl, !.ingest_legacy = il] : wl, il \in BOOLEAN}

RendererInit ==
    /\ relation = NoRelation
    /\ dbdata = <<>>
    /\ fleet = <<>>
    /\ config \in RendererConfigs
    /\ meta \in Metas
    /\ canConnect \in BOOLEAN
    /\ files = NoFiles
    /\ plan = {}
    /\ started = NotStarted
    /\ ports = {}
    /\ version = {}
    /\ apps \in [ServiceTypes -> RendererLists]
    /\ unitStatus = Status("unknown", "")
    /\ lockWanted = FALSE
    /\ event = "none"
    /\ steps = <<>>
    /\ nEvents = 0

\* One call self._render_dynamic_config(service).
RenderCall(service) ==
    /\ Len(steps) < MaxRenders
    /\ \E faults \in FaultSets(canConnect, PushFaults), order \in LegacyOrders :
         LET w == RenderDynamicConfig([World EXCEPT !.apps = apps, !.steps = steps],
                                      Env(config, relation, canConnect, faults, order),
                                      service)
         IN  /\ files' = w.files
             /\ apps' = w.apps
             /\ steps' = w.steps
    /\ UNCHANGED <<fleet, relation, dbdata, config, meta, canConnect, plan, started, ports,
                   version, unitStatus, lockWanted, event, nEvents>>

RenderWeb == RenderCall(WEB)

RenderIngest == RenderCall(INGEST)

RendererNext == RenderWeb \/ RenderIngest

RendererSpec == RendererInit /\ [][RendererNext]_vars

(***************************************************************************)
(* ReconcileSpec: reconcile passes (start, pebble-ready) one after another *)
(* with configuration, relation data and storage unchanged, from a fresh   *)
(* unit in every configuration and relation state of Spec.                 *)
(***************************************************************************)
ReconcileInit ==
    /\ relation \in {NoRelation} \cup {Related(b) : b \in MainBags}
    /\ dbdata = <<>>
    /\ fleet = <<>>
    /\ config \in Configs
    /\ meta \in Metas
    /\ canConnect = FALSE
    /\ files = NoFiles
    /\ plan = {}
    /\ started = NotStarted
    /\ ports = {}
    /\ version = {}
    /\ apps = NoApps
    /\ unitStatus = Status("unknown", "")
    /\ lockWanted = FALSE
    /\ event = "none"
    /\ steps = <<>>
    /\ nEvents = 0

ReconcileNext == Start \/ PebbleReady

ReconcileSpec == ReconcileInit /\ [][ReconcileNext]_vars

(***************************************************************************)
(* FleetSpec: the units of the application during an upgrade.  Every unit  *)
(* has its own workload; the configuration, the relation and the metadata  *)
(* are those of the application.  The rolling-restart lock is the one      *)
(* RollingOpsManager(relation "restart", callback _on_restart) keeps: a    *)
(* unit asks for it, it is granted to one unit at a time, the unit's       *)
(* callback runs, and the lock is released when the callback completes.    *)
(***************************************************************************)
\* the units of the integration test's upgrade: the deployed one and add_unit
NumUnits == 2
Units == 1..NumUnits
\* a unit's count of callback runs saturates here
MaxRuns == 2

FreshUnit ==
    [lock |-> "idle", runs |-> 0, files |-> NoFiles, plan |-> {}, started |-> NotStarted,
     ports |-> {}, version |-> {}, status |-> Status("unknown", "")]

\* What a handler on unit u starts from.
UnitWorld(u) ==
    [files |-> fleet[u].files, plan |-> fleet[u].plan, started |-> fleet[u].started,
     ports |-> fleet[u].ports, version |-> fleet[u].version,
     apps |-> NoApps, steps |-> <<>>, raised |-> FALSE]

\* The end of an event on unit u: as Commit, for the unit's own workload.
UnitCommit(u, w, cc, lock, runs) ==
    /\ fleet' = [fleet EXCEPT ![u] =
           [lock |-> lock, runs |-> runs, files |-> w.files, plan |-> w.plan,
            started |-> w.started, version |-> w.version,
            ports |-> IF w.raised THEN fleet[u].ports ELSE w.ports,
            status |-> IF w.raised THEN Status("error", "hook failed")
                       ELSE HighestPriority(
                                CollectStatus(relation, meta, cc, w.plan, w.started))]]
    /\ UNCHANGED <<relation, dbdata, charmVars>>

\* UbuntuInsightsCharm._on_restart
OnRestart(w, env) == OnConfigChanged(w, env)

\* the lock is granted to everyone who asks
LockFree_Always(u) == TRUE

\* no unit holds the lock
LockFree(u) == \A v \in Units : fleet[v].lock # "granted"

\* the application's configuration: the default one without the legacy
\* entries, whose order plays no part in the handshake
FleetConfig == [DefaultConfig EXCEPT !.web_legacy = FALSE]

FleetInit ==
    /\ relation \in {NoRelation, Related(MkBag({HostH}, {<<"h">>}, {<<"5">>}, {<<"h">>}))}
    /\ dbdata = <<>>
    /\ config = FleetConfig
    /\ meta \in Metas
    /\ canConnect = FALSE
    /\ files = NoFiles
    /\ plan = {}
    /\ started = NotStarted
    /\ ports = {}
    /\ version = {}
    /\ apps = NoApps
    /\ unitStatus = Status("unknown", "")
    /\ lockWanted = FALSE
    /\ event = "none"
    /\ steps = <<>>
    /\ nEvents = 0
    /\ fleet = [u \in Units |-> FreshUnit]

\* upgrade-charm on unit u: the handler asks for the lock; a request that is
\* already pending or served stays as it is
FleetUpgrade(u) ==
    \E cc \in BOOLEAN :
        UnitCommit(u, OnUpgradeCharm(UnitWorld(u), Env(config, relation, cc, {}, LegacyAscending)),
                   cc,
                   IF fleet[u].lock = "idle" THEN "acquire" ELSE fleet[u].lock,
                   IF fleet[u].lock = "idle" THEN 0 ELSE fleet[u].runs)

\* the lock is granted to a unit that asked for it
FleetGrant(u) ==
    /\ fleet[u].lock = "acquire"
    /\ LockFree(u)
    /\ fleet' = [fleet EXCEPT ![u].lock = "granted"]
    /\ UNCHANGED <<relation, dbdata, charmVars>>

\* the unit that holds the lock runs its callback; the lock is released
\* when the callback completes, and kept while the hook fails and is retried
FleetRestart(u) ==
    /\ fleet[u].lock = "granted"
    /\ \E cc \in BOOLEAN :
         \E faults \in FaultSets(cc, PushFaults \cup ExecFaults \cup PlanFaults),
            order \in Orders(config) :
            LET w == OnRestart(UnitWorld(u), Env(config, relation, cc, faults, order))
            IN  UnitCommit(u, w, cc,
                           IF w.raised THEN "granted" ELSE "idle",
                           IF fleet[u].runs < MaxRuns THEN fleet[u].runs + 1 ELSE MaxRuns)

FleetNext ==
    \E u \in Units :
        \/ FleetUpgrade(u)
        \/ FleetGrant(u)
        \/ FleetRestart(u)

FleetSpec == FleetInit /\ [][FleetNext]_vars

\* lock grants and event delivery are fair
FleetFairness ==
    \A u \in Units : SF_vars(FleetGrant(u)) /\ WF_vars(FleetRestart(u))

FleetLiveSpec == FleetSpec /\ FleetFairness

(***************************************************************************)
(* RelationSpec: the database relation is added, filled, removed and       *)
(* added again on a unit whose storage is mounted and whose web service    *)
(* runs.  The unit starts either right after a start event in which        *)
(* everything succeeded, or after one round of adding and removing the     *)
(* relation; both states are computed by the handlers themselves.          *)
(***************************************************************************)
MountedMeta == [container |-> TRUE, mount |-> TRUE, location |-> REPORTS_CACHE_MOUNT_LOCATION]

ReadyRelation == Related(MkBag({HostH}, {<<"h">>}, {<<"5">>}, {<<"h">>}))

\* the environment of an event of the scenario in which every call succeeds
ScenarioEnv(rel) ==
    [cfg |-> DefaultConfig, rel |-> rel, meta |-> MountedMeta, cc |-> TRUE,
     faults |-> {}, order |-> LegacyAscending]

\* what the next handler starts from: a new charm object over the workload
NextEvent(w) == [w EXCEPT !.apps = NoApps, !.steps = <<>>]

FreshWorld ==
    [files |-> NoFiles, plan |-> {}, started |-> NotStarted, ports |-> {},
     version |-> {}, apps |-> NoApps, steps |-> <<>>, raised |-> FALSE]

\* after the start event: no relation, the web service runs
AfterStart == OnConfigChanged(FreshWorld, ScenarioEnv(NoRelation))

\* after database-created on the ready relation, and relation-broken
AfterRemoval ==
    OnDatabaseRelationBroken(
        NextEvent(OnDatabaseCreated(NextEvent(AfterStart), ScenarioEnv(ReadyRelation))),
        ScenarioEnv(NoRelation))

RelationInit ==
    /\ relation = NoRelation
    /\ dbdata = <<>>
    /\ fleet = <<>>
    /\ config = DefaultConfig
    /\ meta = MountedMeta
    /\ canConnect = TRUE
    /\ \E start \in {<<"start", AfterStart>>, <<"database_relation_broken", AfterRemoval>>} :
         LET w == start[2]
         IN  /\ event = start[1]
             /\ files = w.files
             /\ plan = w.plan
             /\ started = w.started
             /\ ports = w.ports
             /\ version = w.version
             /\ apps = w.apps
             /\ steps = w.steps
             /\ unitStatus = HighestPriority(
                                 CollectStatus(NoRelation, MountedMeta, TRUE, w.plan, w.started))
    /\ lockWanted = FALSE
    /\ nEvents = 0

RelationNext ==
    \/ RelationCreated
    \/ DatabaseCreated
    \/ DatabaseEndpointsChanged
    \/ DatabaseRelationBroken

RelationSpec == RelationInit /\ [][RelationNext]_vars

(***************************************************************************)
(* ReplanSpec: the events that submit a plan (pebble-ready and the         *)
(* database events) and the removal of the relation, on a fresh unit in    *)
(* every configuration and relation state.                                 *)
(***************************************************************************)
ReplanNext ==
    \/ PebbleReady
    \/ DatabaseCreated
    \/ DatabaseEndpointsChanged
    \/ DatabaseRelationBroken

ReplanSpec == ReconcileInit /\ [][ReplanNext]_vars

(***************************************************************************)
(* ServingSpec: the scenario of RelationSpec (storage mounted, web service *)
(* running) in which the operator also changes the configuration.          *)
(***************************************************************************)
ServingNext ==
    \/ ConfigChanged
    \/ RelationCreated
    \/ DatabaseCreated
    \/ DatabaseEndpointsChanged
    \/ DatabaseRelationBroken

ServingSpec == RelationInit /\ [][ServingNext]_vars

(***************************************************************************)
(* AllowListSpec: reconcile passes (start, pebble-ready) on a fresh unit   *)
(* without relation, for every pair of 'web-apps' and 'ingest-apps' among  *)
(* one name, two names, another name and a name given twice, and every     *)
(* pair of legacy flags.                                                   *)
(***************************************************************************)
AppsOther == <<"b">>
AppsRepeated == <<"a", ",", "a">>

AllowListConfigs ==
    {[DefaultConfig EXCEPT !.web_apps = wa, !.ingest_apps = ia,
                           !.web_legacy = wl, !.ingest_legacy = il] :
        wa \in {AppsOne, AppsTwo, AppsOther, AppsRepeated},
        ia \in {AppsOne, AppsTwo, AppsOther, AppsRepeated},
        wl \in BOOLEAN, il \in BOOLEAN}

AllowListInit ==
    /\ relation = NoRelation
    /\ dbdata = <<>>
    /\ fleet = <<>>
    /\ config \in AllowListConfigs
    /\ meta \in Metas
    /\ canConnect = FALSE
    /\ files = NoFiles
    /\ plan = {}
    /\ started = NotStarted
    /\ ports = {}
    /\ version = {}
    /\ apps = NoApps
    /\ unitStatus = Status("unknown", "")
    /\ lockWanted = FALSE
    /\ event = "none"
    /\ steps = <<>>
    /\ nEvents = 0

AllowListNext == Start \/ PebbleReady

AllowListSpec == AllowListInit /\ [][AllowListNext]_vars

(***************************************************************************)
(* Claims about the Layer Planner, the lifecycle and the status.           *)
(***************************************************************************)
TheLayer == CHOOSE l \in plan : TRUE

Called(name) == \E i \in 1..Len(steps) : steps[i] = name

\* C1 (PlannerSpec): in every plan the Layer Planner computes, the ingest
\* service is enabled if and only if report_cache_path is non-empty and the
\* descriptor is ready (host != ""), and the web service is enabled if and
\* only if report_cache_path is non-empty, whatever the relation state.
C1_EnablementPolicy ==
    plan # {} =>
        /\ TheLayer.services[INGEST].startup = "enabled"
               <=> (ReportCachePath(meta) # "" /\ GetRelationData(relation).host # <<>>)
        /\ TheLayer.services[WEB].startup = "enabled" <=> ReportCachePath(meta) # ""
        /\ \A s \in ServiceTypes : TheLayer.services[s].startup \in {"enabled", "disabled"}

\* Both services enabled although neither config file exists and the
\* supervisor is unreachable.
C1_Witness ==
    /\ plan # {}
    /\ files = NoFiles
    /\ ~canConnect
    /\ GetRelationData(relation).host # <<>>
    /\ TheLayer.services[INGEST].startup = "enabled"
    /\ TheLayer.services[WEB].startup = "enabled"

\* C2 (Spec): between two events, the stored plan marks the ingest service
\* enabled only if a storage path is resolved and the database connection is
\* ready, also after a database-relation-broken event.
C2_StoredPlanEnabledOnlyWhenReady ==
    (plan # {} /\ TheLayer.services[INGEST].startup = "enabled")
        => (ReportCachePath(meta) # "" /\ IsRelationReady(relation))

\* C3 (Spec): a database-relation-broken event runs none of the reconcile
\* calls; it can only stop the ingest service, and only when the supervisor
\* is reachable and the service is in the plan and running; the web service's
\* run state, both config files, the opened ports, the stored plan and the
\* recorded version stay as they were and no migration runs.
C3_RelationBrokenStopsIngestOnly ==
    [][DatabaseRelationBroken =>
        /\ started'[WEB] = started[WEB]
        /\ files' = files
        /\ ports' = ports
        /\ plan' = plan
        /\ version' = version
        /\ steps' \in {<<>>, <<"stop_ingest">>}
        /\ started'[INGEST] \in {started[INGEST], {}}
        /\ steps' = <<"stop_ingest">>
               <=> (canConnect' /\ plan # {} /\ started[INGEST] # {})
        /\ started'[INGEST] # started[INGEST] => steps' = <<"stop_ingest">>
    ]_vars

\* The relation was removed while both services ran: ingest was stopped,
\* web still runs.
C3_Witness ==
    /\ event = "database_relation_broken"
    /\ steps = <<"stop_ingest">>
    /\ started[INGEST] = {}
    /\ started[WEB] # {}
    /\ unitStatus.name = "blocked"

\* C4 (Spec): no event runs the migration command while the descriptor is
\* not ready or the supervisor is unreachable, whatever 'migrate' is and
\* whichever event reaches the migration runner.
C4_MigrationOnlyWhenReady ==
    Called("exec") => (GetRelationData(relation).host # <<>> /\ canConnect)

\* A database-created event ran the migration although 'migrate' is off.
C4_Witness ==
    /\ event = "database_created"
    /\ Called("exec")
    /\ ~config.migrate

\* C5 (Spec): whenever the status is collected while no database relation
\* exists, the unit status is Blocked("Waiting for database relation"), also
\* when the storage mount is missing too.
C5_NoRelationBlocked ==
    (event # "none" /\ unitStatus.name # "error" /\ ~relation.exists)
        => unitStatus = Status("blocked", "Waiting for database relation")

\* After a database-relation-broken event on a unit without storage mount.
C5_Witness ==
    /\ event = "database_relation_broken"
    /\ ReportCachePath(meta) = ""
    /\ unitStatus = Status("blocked", "Waiting for database relation")

\* C6 (StatusSpec): the collected status is Active if and only if the
\* relation exists and is ready, the container metadata has a non-empty
\* reports-cache location, the supervisor is reachable and both services run.
C6_ActiveIffAllConditions ==
    event = "update_status" =>
        (unitStatus.name = "active"
            <=> /\ relation.exists
                /\ GetRelationData(relation).host # <<>>
                /\ meta.container /\ meta.mount /\ meta.location # ""
                /\ canConnect
                /\ started[WEB] # {}
                /\ started[INGEST] # {})

C6_Witness ==
    /\ event = "update_status"
    /\ unitStatus = Status("active", "")

\* The conditions of _on_collect_status, read off the state.
NoRelationCond == ~relation.exists
RelationWaitingCond == relation.exists /\ GetRelationData(relation).host = <<>>
NoContainerCond == ~meta.container
NoMountCond == meta.container /\ (~meta.mount \/ meta.location = "")
NoPebbleCond == ~canConnect \/ plan = {}
WebDownCond == ~NoPebbleCond /\ started[WEB] = {}
IngestDownCond == ~NoPebbleCond /\ started[INGEST] = {}

\* C7 as stated: severity blocked > waiting > maintenance > active, the first
\* evaluated among equals; a relation that is not ready together with a
\* service that is not running reports the waiting status.
C7_WaitingOutranksMaintenance ==
    event = "update_status" =>
        unitStatus =
            IF NoRelationCond THEN Status("blocked", "Waiting for database relation")
            ELSE IF NoContainerCond THEN Status("blocked", "Container metadata not found")
            ELSE IF NoMountCond
                 THEN Status("blocked", "Waiting for reports cache storage mount")
            ELSE IF RelationWaitingCond THEN Status("waiting", "Waiting for database relation")
            ELSE IF NoPebbleCond
                 THEN Status("maintenance", "Waiting for Pebble in workload container")
            ELSE IF WebDownCond
                 THEN Status("maintenance", "Waiting for the web service to start up")
            ELSE IF IngestDownCond
                 THEN Status("maintenance", "Waiting for the ingest service to start up")
            ELSE Status("active", "")

\* C7 amended (StatusSpec): severity blocked > maintenance > waiting >
\* active, the first evaluated among equals; a relation that is not ready
\* together with a service that is not running reports the maintenance status.
C7_MaintenanceOutranksWaiting ==
    event = "update_status" =>
        unitStatus =
            IF NoRelationCond THEN Status("blocked", "Waiting for database relation")
            ELSE IF NoContainerCond THEN Status("blocked", "Container metadata not found")
            ELSE IF NoMountCond
                 THEN Status("blocked", "Waiting for reports cache storage mount")
            ELSE IF NoPebbleCond
                 THEN Status("maintenance", "Waiting for Pebble in workload container")
            ELSE IF WebDownCond
                 THEN Status("maintenance", "Waiting for the web service to start up")
            ELSE IF IngestDownCond
                 THEN Status("maintenance", "Waiting for the ingest service to start up")
            ELSE IF RelationWaitingCond THEN Status("waiting", "Waiting for database relation")
            ELSE Status("active", "")

\* A relation that is not ready and an ingest service that is not running:
\* the maintenance status is reported.
C7_Witness ==
    /\ event = "update_status"
    /\ RelationWaitingCond
    /\ IngestDownCond /\ ~WebDownCond
    /\ unitStatus = Status("maintenance", "Waiting for the ingest service to start up")

(***************************************************************************)
(* Claims about the Relation Data Reader (checked under ReaderSpec).       *)
(***************************************************************************)
\* A string without ':' and ',' (a host or a port).
Plain(s) == \A i \in 1..Len(s) : s[i] \notin {":", ","}

\* The part of e before its first ',' holds no ':'.
FirstEndpointHasNoColon(e) ==
    \A i \in 1..Len(e) : e[i] = ":" => \E j \in 1..(i - 1) : e[j] = ","

\* C8: get_relation_data returns the canonical empty descriptor (it returns,
\* it does not raise) whenever no relation exists or is listed, fetching the
\* data raises, the bag has no or an empty 'endpoints', the first endpoint has
\* fewer than two colon-separated parts, or one of username / password /
\* database is absent.
C8_EmptyDescriptorOnIncompleteData ==
    (/\ dbdata # <<>>
     /\ \/ ~relation.exists
        \/ ~relation.listed
        \/ relation.fetch = "raises"
        \/ "endpoints" \notin DOMAIN relation.bag
        \/ relation.bag["endpoints"] = <<>>
        \/ FirstEndpointHasNoColon(relation.bag["endpoints"])
        \/ \E k \in {"username", "password", "database"} : k \notin DOMAIN relation.bag)
    => dbdata = <<DBData>>

\* A call on a bag with a well-formed endpoint whose username is absent.
C8_Witness ==
    /\ dbdata = <<DBData>>
    /\ relation.exists /\ relation.listed /\ relation.fetch = "ok"
    /\ DOMAIN relation.bag = {"endpoints", "password", "database"}
    /\ relation.bag["endpoints"] = <<"h", ":", "5">>

\* C9: when the endpoints value is h:p or h:p,<more> (h and p without ':' and
\* ',') and username, password and database are present, the descriptor is
\* exactly {host: h, port: p, user: username, password: password,
\* db_name: database}.
C9_DescriptorFromFirstEndpoint ==
    (/\ dbdata # <<>>
     /\ relation.exists /\ relation.listed /\ relation.fetch = "ok"
     /\ DOMAIN relation.bag = BagKeys)
    => LET e == relation.bag["endpoints"]
       IN  \A i \in 1..Len(e), j \in 1..Len(e) :
               (/\ i <= j
                /\ e[i] = ":"
                /\ Plain(SubSeq(e, 1, i - 1))
                /\ Plain(SubSeq(e, i + 1, j))
                /\ (j = Len(e) \/ e[j + 1] = ","))
               => dbdata = <<[host     |-> SubSeq(e, 1, i - 1),
                              port     |-> SubSeq(e, i + 1, j),
                              user     |-> relation.bag["username"],
                              password |-> relation.bag["password"],
                              db_name  |-> relation.bag["database"]]>>

\* A call on a bag with two endpoints, answered from the first.
C9_Witness ==
    /\ dbdata # <<>>
    /\ relation.exists /\ relation.listed /\ relation.fetch = "ok"
    /\ DOMAIN relation.bag = BagKeys
    /\ relation.bag["endpoints"] = <<"h", ":", "5", ",", "5">>
    /\ dbdata[1].host = <<"h">>
    /\ dbdata[1].port = <<"5">>

\* C10: every descriptor returned is the canonical empty one or a ready one
\* (host != ""); none has host == "" and another field non-empty.
C10_EmptyOrReady ==
    dbdata # <<>> => (dbdata[1] = DBData \/ dbdata[1].host # <<>>)

(***************************************************************************)
(* Claims about the Config Renderer.                                       *)
(***************************************************************************)
LegacyFlag(service) == IF service = WEB THEN config.web_legacy ELSE config.ingest_legacy

\* tail holds every legacy entry exactly once and nothing else
IsLegacyTail(tail) ==
    /\ Len(tail) = Cardinality(LEGACY_VERSIONS)
    /\ Cardinality(LEGACY_VERSIONS) = 14
    /\ \A v \in LEGACY_VERSIONS :
           Cardinality({i \in 1..Len(tail) :
                           tail[i] = <<"ubuntu-report/ubuntu/desktop/", v>>}) = 1

\* C11 (RendererSpec): the file the renderer writes for a service is at that
\* service's path and holds {"allowList": X}, X being the service's list L
\* when its legacy flag is off, and L followed by the 14 legacy entries, each
\* once, when it is on.
C11_RenderedAllowList ==
    \A service \in ServiceTypes :
        LET path == IF service = WEB
                    THEN "/etc/ubuntu-insights-service/web-live-config.json"
                    ELSE "/etc/ubuntu-insights-service/ingest-live-config.json"
            L == apps[service]
        IN  files[path] # {} =>
                \E data \in files[path] :
                    /\ DOMAIN data = {"allowList"}
                    /\ LET X == data.allowList
                       IN  IF LegacyFlag(service)
                           THEN /\ Len(X) = Len(L) + 14
                                /\ SubSeq(X, 1, Len(L)) = L
                                /\ IsLegacyTail(SubSeq(X, Len(L) + 1, Len(X)))
                           ELSE X = L

\* Both files written from different lists, web with the legacy entries and
\* ingest without.
C11_Witness ==
    /\ files[WEB_DYNAMIC_PATH] # {} /\ files[INGEST_DYNAMIC_PATH] # {}
    /\ config.web_legacy /\ ~config.ingest_legacy
    /\ apps[WEB] = <<<<"a">>, <<"b">>>>
    /\ apps[INGEST] = <<<<"b">>>>
    /\ \E data \in files[WEB_DYNAMIC_PATH] : Len(data.allowList) = 16

\* C12 (ReconcileSpec): after any number of reconcile passes with unchanged
\* configuration, web_apps and ingest_apps are the lists parsed from the
\* configuration, and a rendered file holds the parsed list followed, when
\* the service's legacy flag is set, by every legacy entry exactly once.
C12_AllowListsNotMutated ==
    event # "none" =>
        /\ apps[WEB] = ParseApps(config.web_apps)
        /\ apps[INGEST] = ParseApps(config.ingest_apps)
        /\ \A service \in ServiceTypes :
               \A data \in files[DynamicPath(service)] :
                   LET X == data.allowList
                       L == ParseApps(IF service = WEB THEN config.web_apps
                                      ELSE config.ingest_apps)
                   IN  /\ SubSeq(X, 1, Len(L)) = L
                       /\ IF LegacyFlag(service)
                          THEN IsLegacyTail(SubSeq(X, Len(L) + 1, Len(X)))
                          ELSE Len(X) = Len(L)

\* Three passes, the last one with the supervisor reachable and the web
\* file rendered with the legacy entries.
C12_Witness ==
    /\ nEvents = 3
    /\ canConnect
    /\ config.web_legacy
    /\ Called("push_web")
    /\ \E data \in files[WEB_DYNAMIC_PATH] :
           Len(data.allowList) = Len(ParseApps(config.web_apps)) + 14
    /\ apps[WEB] = ParseApps(config.web_apps)

(***************************************************************************)
(* Claims about the planned commands.                                      *)
(***************************************************************************)
Has(tokens, t) == \E i \in 1..Len(tokens) : tokens[i] = t

C14_CommandsAsInUnitTests ==
    (/\ event \in {"pebble_ready", "storage_attached"}
     /\ config = DefaultConfig
     /\ ReportCachePath(meta) # ""
     /\ ~relation.exists
     /\ canConnect
     /\ Called("set_workload_version"))
    => /\ TheLayer.services[WEB].command =
              <<"/bin/ubuntu-insights-web-service",
                "--listen-port=" \o ToString(config.web_port),
                "--daemon-config=/etc/ubuntu-insights-service/web-live-config.json",
                "--reports-dir=" \o ReportCachePath(meta),
                "--metrics-port=2112">>
       /\ TheLayer.services[INGEST].command =
              <<"/bin/ubuntu-insights-ingest-service",
                "--daemon-config=/etc/ubuntu-insights-service/ingest-live-config.json",
                "--reports-dir=" \o ReportCachePath(meta),
                "--metrics-port=2113">>
       /\ started[WEB] # {}
       /\ started[INGEST] = {}

\* C15 (Spec): in every plan submitted to the supervisor the environment of
\* the ingest service is the five UBUNTU_INSIGHTS_INGEST_SERVICE_DBCONFIG_*
\* variables of the descriptor read in that event when it is ready, and empty
\* when it is not; after a database-endpoints-changed event the plan carries
\* the new endpoint.
C15_IngestEnvironmentFromRelation ==
    Called("replan_services") =>
        LET d == GetRelationData(relation)
            environment == TheLayer.services[INGEST].environment
        IN  IF d.host # <<>>
            THEN /\ DOMAIN environment =
                        {"UBUNTU_INSIGHTS_INGEST_SERVICE_DBCONFIG_HOST",
                         "UBUNTU_INSIGHTS_INGEST_SERVICE_DBCONFIG_PORT",
                         "UBUNTU_INSIGHTS_INGEST_SERVICE_DBCONFIG_USER",
                         "UBUNTU_INSIGHTS_INGEST_SERVICE_DBCONFIG_PASSWORD",
                         "UBUNTU_INSIGHTS_INGEST_SERVICE_DBCONFIG_DBNAME"}
                 /\ environment["UBUNTU_INSIGHTS_INGEST_SERVICE_DBCONFIG_HOST"] = d.host
                 /\ environment["UBUNTU_INSIGHTS_INGEST_SERVICE_DBCONFIG_PORT"] = d.port
                 /\ environment["UBUNTU_INSIGHTS_INGEST_SERVICE_DBCONFIG_USER"] = d.user
                 /\ environment["UBUNTU_INSIGHTS_INGEST_SERVICE_DBCONFIG_PASSWORD"]
                        = d.password
                 /\ environment["UBUNTU_INSIGHTS_INGEST_SERVICE_DBCONFIG_DBNAME"]
                        = d.db_name
            ELSE DOMAIN environment = {}

\* A database-endpoints-changed event to the endpoint "5:h" submitted a plan
\* whose environment names host "5" and port "h".
C15_Witness ==
    /\ event = "database_endpoints_changed"
    /\ Called("replan_services")
    /\ relation.bag["endpoints"] = <<"5", ":", "h">>
    /\ TheLayer.services[INGEST].environment
           ["UBUNTU_INSIGHTS_INGEST_SERVICE_DBCONFIG_HOST"] = <<"5">>
    /\ TheLayer.services[INGEST].environment
           ["UBUNTU_INSIGHTS_INGEST_SERVICE_DBCONFIG_PORT"] = <<"h">>

(***************************************************************************)
(* Claims about the reconcile routine.                                     *)
(***************************************************************************)
\* the last event ran _on_config_changed
ReconcileEvent ==
    \/ event \in {"start", "pebble_ready", "config_changed", "restart"}
    \/ (event \in {"storage_attached", "storage_detaching"} /\ ReportCachePath(meta) # "")

\* C16 (Spec): after every config-changed-type event (start, pebble-ready,
\* config-changed, restart-requested, storage event with a resolved path)
\* the opened ports are exactly {web-port}, whether or not the supervisor is
\* reachable; no port configured earlier stays open.
C16_PortsAfterEveryReconcile ==
    ReconcileEvent => ports = {config.web_port}

\* the calls of a complete reconcile pass, in order
FullPass(migrates) ==
    <<"push_web", "push_ingest">>
    \o (IF migrates THEN <<"exec">> ELSE <<>>)
    \o <<"set_ports", "add_layer", "replan_services", "set_workload_version">>

IsPrefix(s, t) == Len(s) <= Len(t) /\ SubSeq(t, 1, Len(s)) = s

\* C17 (Spec): start, pebble-ready, config-changed, restart-requested and a
\* storage event with a resolved path run one routine: both allow-lists are
\* recomputed from the configuration, the web file is rendered, then the
\* ingest file, then the migration runs if 'migrate' is set (and the
\* relation is ready and the supervisor reachable), then the web port is
\* opened, then the layer is submitted and replanned; the calls made are a
\* prefix of this sequence, complete up to the opening of the port unless the
\* hook failed, so no file is written and no migration runs after the replan.
C17_ReconcileOrder ==
    ReconcileEvent =>
        LET migrates == config.migrate /\ GetRelationData(relation).host # <<>> /\ canConnect
        IN  /\ apps[WEB] = ParseApps(config.web_apps)
            /\ apps[INGEST] = ParseApps(config.ingest_apps)
            /\ IsPrefix(steps, FullPass(migrates))
            /\ Len(steps) >= 2
            /\ unitStatus.name # "error" => (Called("set_ports") /\ Len(steps) >= Len(FullPass(migrates)) - 3)
            /\ \A i, j \in 1..Len(steps) :
                   (steps[i] = "replan_services" /\ j > i)
                       => steps[j] \notin {"push_web", "push_ingest", "exec"}

\* A pebble-ready event made every call of the routine, the migration
\* included.
C17_Witness ==
    /\ event = "pebble_ready"
    /\ steps = <<"push_web", "push_ingest", "exec", "set_ports", "add_layer",
                 "replan_services", "set_workload_version">>

SecondCompletePass ==
    /\ ReconcileNext
    /\ canConnect /\ canConnect'
    /\ \A service \in ServiceTypes : files[DynamicPath(service)] # {}
    /\ Called("set_workload_version")
    /\ \E i \in 1..Len(steps') : steps'[i] = "set_workload_version"

\* C19 (ReconcileSpec): with configuration, relation data, storage and
\* reachability unchanged, a second reconcile pass leaves the config files,
\* the stored plan, the running services, the opened ports and the reported
\* status as the first pass left them.
C19_ReconcileIdempotent ==
    [][SecondCompletePass =>
          /\ files' = files
          /\ plan' = plan
          /\ started' = started
          /\ ports' = ports
          /\ unitStatus' = unitStatus
    ]_vars

C21_OneUnitRestartsAtATime ==
    [][ /\ \A u, v \in Units :
             (fleet'[u].lock = "granted" /\ fleet'[v].lock = "granted") => u = v
        /\ \A u \in Units :
             (FleetRestart(u) /\ fleet'[u].status.name # "error")
                 => fleet'[u].lock = "idle" ]_vars

\* one unit holds the lock after its predecessor released it, and the
\* predecessor asked again and waits
C21_Witness ==
    \E u, v \in Units :
        /\ u # v
        /\ fleet[u].lock = "granted"
        /\ fleet[v].lock = "acquire"
        /\ fleet[v].status.name = "active"
        /\ fleet[v].started[WEB] # {}

\* C22 (FleetLiveSpec): under fair lock grants and event delivery, every
\* unit that asked for the lock in an upgrade event eventually has run the
\* reconcile routine exactly once for that request and released the lock,
\* its hook completed (the status collected is then Active whenever its
\* conditions hold).
C22_UpgradeLeadsToOneRestart ==
    \A u \in Units :
        (fleet[u].lock = "acquire")
            ~> (/\ fleet[u].lock = "idle"
                /\ fleet[u].runs = 1
                /\ fleet[u].status.name # "error")

\* this step is a reconcile event in which the migration was run and exited
\* non-zero (pebble.ExecError)
MigrationExitsNonZero ==
    /\ ReconcileEvent'
    /\ canConnect'
    /\ \E order \in Orders(config') :
         LET w == OnConfigChanged(World, Env(config', relation, TRUE, {"exec_nonzero"}, order))
         IN  /\ \E i \in 1..Len(w.steps) : w.steps[i] = "exec"
             /\ steps' = w.steps
             /\ files' = w.files
             /\ plan' = w.plan
             /\ started' = w.started
             /\ version' = w.version

\* C23 (ReconcileSpec): after a reconcile event whose migration run exits
\* non-zero, the status reported is not Active (it stays a waiting or
\* maintenance status until an event in which the migration succeeds).
C23_FailedMigrationNotActive ==
    [][MigrationExitsNonZero => unitStatus'.name # "active"]_vars

\* C24 (Spec): no event handler ends in an unhandled error: whatever the
\* event and whatever call fails while it is handled, the hook completes
\* and the unit ends in a status the operator reports (never the error
\* status of a failed hook).
C24_NoHookFails ==
    unitStatus.name # "error"

\* this step is a reconcile event handled with the supervisor reachable or
\* not (cc) and with these calls failing
PassWith(faults, cc) ==
    /\ ReconcileEvent'
    /\ canConnect' = cc
    /\ \E order \in Orders(config') :
         LET w == OnConfigChanged(World, Env(config', relation, cc, faults, order))
         IN  /\ steps' = w.steps
             /\ files' = w.files
             /\ plan' = w.plan
             /\ started' = w.started
             /\ version' = w.version

\* the steps after the renderer were attempted in this event
RestAttempted(cc) ==
    /\ \E i \in 1..Len(steps') : steps'[i] = "set_ports"
    /\ \E i \in 1..Len(steps') : steps'[i] = "add_layer"
    /\ ports' = {config'.web_port}
    /\ (config'.migrate /\ IsRelationReady(relation) /\ cc)
           => \E i \in 1..Len(steps') : steps'[i] = "exec"

\* C25 (ReconcileSpec): a failed step does not abort the reconcile pass.
\* When the write of a config file fails (supervisor unreachable, or API
\* error), the file keeps its previous content and the other file, the
\* migration, the port and the layer are still attempted; when the
\* migration exits non-zero the port is still opened and the layer is
\* still submitted and replanned in the same event.
C25_FailedStepDoesNotAbort ==
    [][ /\ PassWith({"push_web"}, TRUE)
            => /\ files'[WEB_DYNAMIC_PATH] = files[WEB_DYNAMIC_PATH]
               /\ \E i \in 1..Len(steps') : steps'[i] = "push_ingest"
               /\ RestAttempted(TRUE)
        /\ PassWith({"push_ingest"}, TRUE)
            => /\ files'[INGEST_DYNAMIC_PATH] = files[INGEST_DYNAMIC_PATH]
               /\ RestAttempted(TRUE)
        /\ PassWith({}, FALSE)
            => /\ files' = files
               /\ \E i \in 1..Len(steps') : steps'[i] = "push_ingest"
               /\ RestAttempted(FALSE)
        /\ PassWith({"exec_nonzero"}, TRUE)
            => /\ RestAttempted(TRUE)
               /\ \E i \in 1..Len(steps') : steps'[i] = "replan_services"
               /\ plan' # {} ]_vars

\* a pass handled while the supervisor was unreachable, after an earlier
\* pass wrote the files: they are kept, the port is open, the layer was tried
C25_Witness ==
    /\ ReconcileEvent
    /\ ~canConnect
    /\ files[WEB_DYNAMIC_PATH] # {}
    /\ files[INGEST_DYNAMIC_PATH] # {}
    /\ steps = <<"push_web", "push_ingest", "set_ports", "add_layer">>
    /\ ports = {config.web_port}

\* the last event was a reconcile pass whose plan-and-replan step was
\* abandoned on a communication failure
Abandoned ==
    /\ ReconcileEvent
    /\ unitStatus.name # "error"
    /\ Called("add_layer")
    /\ ~Called("set_workload_version")

\* what can go wrong in an event without the supervisor failing to answer
NoCommunicationFailure ==
    {{}, {"exec_nonzero"}, {"exec_change"}, {"replan_change"}, {"version"}}

\* C26 (ReconcileSpec): when add_layer or the replan fails with a
\* communication failure, the step is abandoned for that event (one attempt,
\* the workload version is not touched); and the next reconcile event in
\* which the supervisor answers installs the plan computed from the inputs
\* of that event, so the stored plan does not stay stale.
C26_AbandonedThenRetried ==
    [][ /\ (PassWith({"add_layer"}, TRUE) \/ PassWith({"replan_api"}, TRUE)
               \/ PassWith({}, FALSE))
            => /\ version' = version
               /\ Cardinality({i \in 1..Len(steps') : steps'[i] = "add_layer"}) = 1
               /\ Cardinality({i \in 1..Len(steps') : steps'[i] = "replan_services"}) <= 1
        /\ (Abandoned /\ \E f \in NoCommunicationFailure : PassWith(f, TRUE))
            => plan' = {PebbleLayer(World, Env(config', relation, TRUE, {}, LegacyAscending))}
      ]_vars

\* C27 (Spec): the workload version is recorded only at the end of an
\* event whose layer submission and replan succeeded, from the reply of
\* /version; when the probe fails, or the web service is not in the plan,
\* the event completes and the version is left as it was: never recorded as
\* the empty value, and a version recorded earlier is not replaced by it.
C27_VersionOnlyFromReply ==
    [][ /\ version' # version
            => /\ steps' # <<>>
               /\ steps'[Len(steps')] = "set_workload_version"
               /\ \E i \in 1..Len(steps') : steps'[i] = "replan_services"
        /\ (steps' # <<>> /\ steps'[Len(steps')] = "set_workload_version")
            => unitStatus'.name # "error"
        /\ version' # {""} ]_vars

\* this step is the database-created event, handled with the supervisor
\* reachable and with these calls failing
CreatedWith(faults) ==
    /\ event' = "database_created"
    /\ canConnect'
    /\ LET w == OnDatabaseCreated(World, Env(config, relation', TRUE, faults, LegacyAscending))
       IN  /\ steps' = w.steps
           /\ plan' = w.plan
           /\ started' = w.started
           /\ version' = w.version

\* this step is the relation-broken event, the stop (if any) succeeding
BrokenWith(cc) ==
    /\ event' = "database_relation_broken"
    /\ canConnect' = cc
    /\ LET w == OnDatabaseRelationBroken(World, Env(config, relation', cc, {}, LegacyAscending))
       IN  /\ steps' = w.steps
           /\ started' = w.started

\* C28 (RelationSpec): on a unit with the storage mounted and the web
\* service running that is Blocked for want of the relation, the
\* database-created event on the ready relation, handled with the supervisor
\* reachable and the services starting, leaves the ingest service enabled
\* and running and the unit Active; removing the relation makes the unit
\* Blocked again, and the same holds when the relation is added again.
C28_RelationRoundTrip ==
    [][ /\ (/\ \E f \in {{}, {"version"}} : CreatedWith(f)
            /\ IsRelationReady(relation')
            /\ started[WEB] # {})
            => /\ plan' # {}
               /\ \A l \in plan' : l.services[INGEST].startup = "enabled"
               /\ started'[INGEST] # {}
               /\ started'[WEB] = started[WEB]
               /\ unitStatus'.name = "active"
        /\ (BrokenWith(TRUE) \/ BrokenWith(FALSE))
            => unitStatus' = Status("blocked", "Waiting for database relation")
      ]_vars

\* the relation was added again after its removal and is ready: Active
C28_Witness ==
    /\ event = "database_created"
    /\ nEvents = 2
    /\ IsRelationReady(relation)
    /\ started[INGEST] # {}
    /\ started[WEB] # {}
    /\ unitStatus.name = "active"

\* the last event ended with a plan-and-replan step that succeeded
ReplanSucceeded ==
    /\ steps # <<>>
    /\ steps[Len(steps)] = "set_workload_version"
    /\ plan # {}

\* C29 (ReplanSpec): after every successful plan-and-replan step each of the two
\* services is running if and only if it is enabled in the submitted plan
\* (a service that became enabled was started, one that became disabled was
\* stopped), and a running service runs with its entry of that plan.
C29_RunningIffEnabled ==
    ReplanSucceeded =>
        \A s \in ServiceTypes :
            /\ started[s] # {} <=> TheLayer.services[s].startup = "enabled"
            /\ started[s] # {} => started[s] = {TheLayer.services[s]}

\* C30 (Spec): in every reachable state a service is enabled in the stored
\* plan only if its live-config file is present in the workload
\* filesystem; no sequence of events enables the web or the ingest service
\* while its file has never been written.
C30_EnabledOnlyWithConfigFile ==
    plan # {} =>
        \A s \in ServiceTypes :
            TheLayer.services[s].startup = "enabled" => files[DynamicPath(s)] # {}

(***************************************************************************)
(* Claims about several related instances, the storage events, the         *)
(* migrate option, the web service and the allow-lists.                    *)
(***************************************************************************)
\* the bag has a non-empty "endpoints" field
HasEndpoints(bag) == DictGet(bag, "endpoints", <<>>) # <<>>

\* C31 (InstancesSpec): with several related instances the reader uses the
\* first one whose "endpoints" field is non-empty: when the first instance
\* has an empty or missing "endpoints" and the next one has endpoints and
\* credentials, the descriptor is built from that one and is ready.
C31_FirstInstanceWithEndpoints ==
    (/\ dbdata # <<>>
     /\ ~HasEndpoints(relation.bag)
     /\ HasEndpoints(relation.later[1])
     /\ ~MissingCredentials(relation.later[1]))
        => /\ dbdata[1] = GetRelationData(Related(relation.later[1]))
           /\ dbdata[1].host # <<>>

\* C32 (Spec): on a storage-attached or storage-detaching event, when the
\* storage path is unresolved both services are stopped and nothing else
\* is done (no render, migration, port or layer); when it is resolved the
\* reconcile routine runs; and after a storage-detaching event neither
\* service is left running.
C32_StorageEvents ==
    event \in {"storage_attached", "storage_detaching"} =>
        /\ ReportCachePath(meta) = ""
            => /\ started = NotStarted
               /\ \A i \in 1..Len(steps) : steps[i] \in {"stop_web", "stop_ingest"}
        /\ ReportCachePath(meta) # ""
            => /\ Called("push_web")
               /\ Called("push_ingest")
        /\ event = "storage_detaching" => started = NotStarted

\* C33 (ReplanSpec): 'migrate' gates the migration command only on the events that
\* run the reconcile routine, where the command runs exactly when 'migrate'
\* is set, the relation ready and the supervisor reachable; on
\* database-created and database-endpoints-changed it runs exactly when the
\* relation is ready and the supervisor reachable, whatever 'migrate' is; and
\* in every event the command comes before the layer is submitted and
\* replanned.
C33_MigrateGatesReconcileOnly ==
    LET ready == GetRelationData(relation).host # <<>> /\ canConnect
    IN  /\ ReconcileEvent => (Called("exec") <=> (config.migrate /\ ready))
        /\ event \in {"database_created", "database_endpoints_changed"}
               => (Called("exec") <=> ready)
        /\ \A i, j \in 1..Len(steps) :
               (steps[i] = "exec" /\ steps[j] \in {"add_layer", "replan_services"})
                   => i < j

\* A database-endpoints-changed event with 'migrate' off ran the migration
\* and then submitted and replanned the layer.
C33_Witness ==
    /\ event = "database_endpoints_changed"
    /\ ~config.migrate
    /\ steps = <<"exec", "add_layer", "replan_services", "set_workload_version">>

\* C34 (ServingSpec): the web entry of a plan that a database-created,
\* database-endpoints-changed or database-relation-broken event submits is
\* made of web-port, debug and the storage path only, and such an event
\* leaves a running web service running with the entry it runs with (it is
\* neither stopped nor restarted).
C34_DatabaseEventsKeepWebService ==
    [][event' \in {"database_created", "database_endpoints_changed",
                   "database_relation_broken"}
         => /\ (plan' # {} /\ plan' # plan)
                => TheLayer'.services[WEB]
                     = [command |-> WebCommand(config, meta),
                        startup |-> IF ReportCachePath(meta) # ""
                                    THEN "enabled" ELSE "disabled"]
            /\ started[WEB] # {} => started'[WEB] = started[WEB]]_vars

IsLegacyEntry(entry) == Len(entry) = 2 /\ entry[1] = "ubuntu-report/ubuntu/desktop/"

\* C35 (AllowListSpec): the allow-list of a rendered file has no entry twice;
\* each of its application names is one of the names of the service's own
\* option, split on commas and trimmed, so that a name of the other option
\* is in it only if it is in the own option too; and it has legacy
\* identifiers only if the service's own legacy flag is set.
C35_AllowListsIndependent ==
    \A service \in ServiceTypes :
        \A data \in files[DynamicPath(service)] :
            LET X == data.allowList
                L == ParseApps(IF service = WEB THEN config.web_apps
                               ELSE config.ingest_apps)
            IN  /\ \A i, j \in 1..Len(X) : X[i] = X[j] => i = j
                /\ \A i \in 1..Len(X) :
                       IsLegacyEntry(X[i]) \/ \E k \in 1..Len(L) : L[k] = X[i]
                /\ \A i \in 1..Len(X) : IsLegacyEntry(X[i]) => LegacyFlag(service)

====
